---- MODULE Spec2Model ----
(***************************************************************************)
(* Webhook ingestion pipeline of the Buma gateway: IngestService.handle,   *)
(* WebhookDeliveryRepository.insert_if_new, QueuePublisher.publish and the *)
(* per-request database session of get_db, run by concurrent requests      *)
(* against one webhook_delivery table (unique delivery_id) and one Redis   *)
(* list.                                                                   *)
(***************************************************************************)
EXTENDS Integers, Sequences, FiniteSets, TLC

\* ---------------------------------------------------------------- bounds
MaxReq == 2          \* number of webhook requests (handle calls) in a run

Reqs == 1..MaxReq

\* the delivery ids (X-GitHub-Delivery) the sender uses
DeliveryIds == {"D1", "D2"}

\* ------------------------------------------------------------- constants
None == "None"                      \* Python None / JSON null
\* JSON null as the value of a member that otherwise holds an object
NoneObject == [null |-> TRUE]
SCHEMA_VERSION == "1.0"
QUEUE_KEY == "buma:triage:queue"     \* the one Redis key; `queue` is its list

QUEUED    == "QUEUED"
DUPLICATE == "DUPLICATE"
IGNORED   == "IGNORED"
IngestResult == {QUEUED, DUPLICATE, IGNORED}

\* ---------------------------------------------------------- raw payloads
\* A payload is a JSON object: a function from its keys to values; a key
\* that is absent is not in its DOMAIN, a JSON null is None.
Without(p, key) == [k \in DOMAIN p \ {key} |-> p[k]]
Get(p, key, default) == IF key \in DOMAIN p THEN p[key] ELSE default

ISSUE_PAYLOAD ==
    [action       |-> "opened",
     installation |-> [id |-> 12345],
     repository   |-> [id |-> 111, full_name |-> "owner/repo", private |-> FALSE],
     issue        |-> [number |-> 1, id |-> 999, node_id |-> "I_node",
                       url |-> "https://api.github.com/repos/owner/repo/issues/1",
                       html_url |-> "https://github.com/owner/repo/issues/1",
                       title |-> "Bug", body |-> "Description",
                       labels |-> <<[name |-> "bug"]>>,
                       user |-> [login |-> "octocat"],
                       created_at |-> "2024-01-01T00:00:00Z",
                       updated_at |-> "2024-01-01T00:00:00Z"],
     sender       |-> [login |-> "octocat"]]

ClosedPayload    == [ISSUE_PAYLOAD EXCEPT !.action = "closed"]
NoActionPayload  == Without(ISSUE_PAYLOAD, "action")
NoInstallPayload == Without(ISSUE_PAYLOAD, "installation")
NullNamePayload  == [ISSUE_PAYLOAD EXCEPT !.repository.full_name = None]
NoNumberPayload  == [ISSUE_PAYLOAD EXCEPT !.issue = Without(ISSUE_PAYLOAD.issue, "number")]

\* payloads that differ from ISSUE_PAYLOAD in the optional members only
TwoLabelsPayload ==
    [ISSUE_PAYLOAD EXCEPT !.issue.labels =
        <<[name |-> "ui", color |-> "a2eeef"], [name |-> "bug", color |-> "d73a4a"]>>]
EmptyLabelsPayload == [ISSUE_PAYLOAD EXCEPT !.issue.labels = <<>>]
NoLabelsPayload   == [ISSUE_PAYLOAD EXCEPT !.issue = Without(ISSUE_PAYLOAD.issue, "labels")]
NoSenderPayload   == Without(ISSUE_PAYLOAD, "sender")
NullSenderPayload == [ISSUE_PAYLOAD EXCEPT !.sender = NoneObject]

\* The (event name, payload) pairs a request may carry, by index.
Inputs ==
    << <<"issues", ISSUE_PAYLOAD>>, <<"push", ISSUE_PAYLOAD>>,
       <<"issues", ClosedPayload>>, <<"issues", NoActionPayload>>,
       <<"issues", NoInstallPayload>>, <<"issues", NullNamePayload>>,
       <<"issues", NoNumberPayload>> >>

\* further pairs, carried by the requests that come in through the endpoint
MoreInputs ==
    << <<"issues", TwoLabelsPayload>>, <<"issues", EmptyLabelsPayload>>,
       <<"issues", NoLabelsPayload>>, <<"issues", NoSenderPayload>>,
       <<"issues", NullSenderPayload>> >>

AllInputs == Inputs \o MoreInputs

\* ------------------------------------------------------------------ state
VARIABLES
    pc,       \* pc[r]: position of request r in handle: "idle", "insert",
              \*   "publish", "commit", "returned", "raised", "closed", or
              \*   "rejected" when the endpoint refused it before handle
    inp,      \* inp[r]: index in Inputs of the request's event name and payload
    did,      \* did[r]: the request's delivery id (X-GitHub-Delivery)
    result,   \* result[r]: what handle returned, or the error it raised
    sess,     \* sess[r]: state of the request's AsyncSession / transaction
    calls,    \* calls[r]: the calls handle made on session and publisher, in
              \*   order; a call that raised is marked with "!"
    before,   \* before[r]: the requests whose handle had ended when r's began
    ledger,   \* committed rows of table webhook_delivery
    queue,    \* the Redis list at QUEUE_KEY, head first
    http,     \* http[r]: the HTTP request as the endpoint receives it (its three
              \*   headers and raw body); NoRequest when handle is called directly
    verified, \* verified[r]: what verify_github_signature returned for request
              \*   r ("True", "False"), the error it raised, or "none"
    settings, \* the gateway's Settings (github_webhook_secret)
    client,   \* client[r]: state of the request's Redis client (get_redis):
              \*   "none", "open", "closed"
    consumer  \* a JSON text on the consumer's side of the queue: the event it
              \*   was made of, the text, and what decoding it has given

vars == <<pc, inp, did, result, sess, calls, before, ledger, queue,
          http, verified, settings, client, consumer>>

\* what handle and the session never touch
endpoint == <<http, verified, settings>>

event_name(r) == AllInputs[inp[r]][1]
payload(r)    == AllInputs[inp[r]][2]
received_at(r) == r      \* the gateway clock: requests are numbered in arrival order

Ended(r) == pc[r] \in {"returned", "raised", "closed"}

\* ------------------------------------------------- IngestService.handle
action(p) == Get(p, "action", None)

\* mutant: the filter looks at the event name only
InScope_EventNameOnly(name, p) == name = "issues"

\* the filter of handle: event name and action whitelist
InScope(name, p) == ~(name # "issues" \/ action(p) # "opened")

\* payload["installation"]["id"], payload["repository"], payload["issue"],
\* repo["id"], repo["full_name"]: a missing key raises KeyError
HasRoutingFields(p) ==
    /\ "installation" \in DOMAIN p /\ "id" \in DOMAIN p.installation
    /\ "repository" \in DOMAIN p
    /\ "issue" \in DOMAIN p
    /\ "id" \in DOMAIN p.repository /\ "full_name" \in DOMAIN p.repository

\* the WebhookDelivery row insert_if_new adds for a request
Row(d, name, p, at) ==
    [delivery_id     |-> d,
     event_name      |-> name,
     action          |-> action(p),
     installation_id |-> p.installation.id,
     repo_id         |-> p.repository.id,
     repo_full_name  |-> p.repository.full_name,
     received_at     |-> at,
     status          |-> "RECEIVED"]

RowOf(r) == Row(did[r], event_name(r), payload(r), received_at(r))

\* keys the construction of the NormalizedEvent reads with [] from the payload
RequiredIssueKeys ==
    {"number", "id", "node_id", "url", "html_url", "title", "user",
     "created_at", "updated_at"}

HasEventKeys(p) ==
    /\ "private" \in DOMAIN p.repository
    /\ RequiredIssueKeys \subseteq DOMAIN p.issue
    /\ "login" \in DOMAIN p.issue.user
    /\ \A i \in DOMAIN Get(p.issue, "labels", <<>>) : "name" \in DOMAIN p.issue.labels[i]

\* payload.get("sender", {}).get("login"): the default {} is used only when
\* the key is absent; a JSON null is returned as None, which has no get
SenderHasGet(p) == "sender" \in DOMAIN p => p.sender # NoneObject

\* the construction of the NormalizedEvent raises nothing
CanBuildEvent(p) == HasEventKeys(p) /\ SenderHasGet(p)

\* the error the construction raises when it cannot be built: the keyword
\* arguments are evaluated in order, sender_login after repo and issue
BuildError(p) == IF ~HasEventKeys(p) THEN "KeyError" ELSE "AttributeError"

\* mutant: the labels in reverse order
Labels_Reversed(issue) ==
    LET ls == Get(issue, "labels", <<>>)
    IN  [i \in DOMAIN ls |-> ls[Len(ls) + 1 - i].name]

\* labels=[lbl["name"] for lbl in issue.get("labels", [])]
Labels(issue) ==
    LET ls == Get(issue, "labels", <<>>)
    IN  [i \in DOMAIN ls |-> ls[i].name]

\* mutant: an event id of its own instead of the delivery id
EventId_Own(d) == "evt"

\* event_id=delivery_id
EventId(d) == d

NormalizedEvent(d, name, p, at) ==
    [schema_version  |-> SCHEMA_VERSION,
     event_id        |-> EventId(d),
     delivery_id     |-> d,
     event_name      |-> name,
     action          |-> action(p),
     received_at     |-> at,
     installation_id |-> p.installation.id,
     repo            |-> [id |-> p.repository.id,
                          full_name |-> p.repository.full_name,
                          private |-> p.repository.private],
     issue           |-> [number |-> p.issue.number,
                          id |-> p.issue.id,
                          node_id |-> p.issue.node_id,
                          url |-> p.issue.url,
                          html_url |-> p.issue.html_url,
                          title |-> p.issue.title,
                          body |-> Get(p.issue, "body", None),
                          labels |-> Labels(p.issue),
                          author_login |-> p.issue.user.login,
                          created_at |-> p.issue.created_at,
                          updated_at |-> p.issue.updated_at],
     sender_login    |-> Get(Get(p, "sender", <<>>), "login", None),
     trace_id        |-> None]

EventOf(r) == NormalizedEvent(did[r], event_name(r), payload(r), received_at(r))

\* -------------------------------------------- QueuePublisher / wire format
\* model_dump_json: the event's fields as JSON members, in declaration order
EventFields ==
    <<"schema_version", "event_id", "delivery_id", "event_name", "action",
      "received_at", "installation_id", "repo", "issue", "sender_login",
      "trace_id">>

\* a datetime is written as its ISO 8601 text and read back from it
isoformat(t) == <<"iso", t>>
fromisoformat(text) == text[2]

DatetimeFields == {"received_at", "created_at", "updated_at"}

\* mutant: received_at is written as its date, the time of day is lost
ToJson_DateOnly(k, v) ==
    IF k = "received_at" THEN isoformat(0)
    ELSE IF k \in DatetimeFields THEN isoformat(v)
    ELSE IF k = "issue"
         THEN [f \in DOMAIN v |-> IF f \in DatetimeFields THEN isoformat(v[f]) ELSE v[f]]
         ELSE v

\* the JSON value of field k holding v
ToJson(k, v) ==
    IF k \in DatetimeFields THEN isoformat(v)
    ELSE IF k = "issue"
         THEN [f \in DOMAIN v |-> IF f \in DatetimeFields THEN isoformat(v[f]) ELSE v[f]]
         ELSE v

model_dump_json(e) ==
    [i \in DOMAIN EventFields |-> <<EventFields[i], ToJson(EventFields[i], e[EventFields[i]])>>]

\* the value of member key of a JSON text produced by model_dump_json
Member(msg, key) == msg[CHOOSE i \in DOMAIN msg : msg[i][1] = key][2]

\* ----------------------------- NormalizedEvent.model_validate_json (decoding)
\* the fields the three models declare, and those without a default
RepoFields == {"id", "full_name", "private"}
IssueFields ==
    {"number", "id", "node_id", "url", "html_url", "title", "body", "labels",
     "author_login", "created_at", "updated_at"}
RequiredIssueFields == IssueFields \ {"body", "labels"}
DeclaredFields == {EventFields[i] : i \in DOMAIN EventFields}
RequiredFields == DeclaredFields \ {"schema_version", "sender_login", "trace_id"}

\* mutant: the pydantic default extra="ignore", undeclared fields are dropped
Forbidden_Ignore(keys, declared) == FALSE

\* model_config = ConfigDict(extra="forbid"): a key that is not declared
Forbidden(keys, declared) == ~(keys \subseteq declared)

\* what decoding gives when validation fails: no event
ValidationError == [error |-> "ValidationError"]

\* Decoding a JSON text with the schema: every member must be declared, at
\* the top level and inside repo and issue, every field without a default
\* must be there, and a field that is left out gets its default.
model_validate_json(msg) ==
    LET keys   == {msg[i][1] : i \in DOMAIN msg}
        val(k) == Member(msg, k)
        dflt(k) == IF k = "schema_version" THEN SCHEMA_VERSION ELSE None
    IN  IF Forbidden(keys, DeclaredFields) \/ ~(RequiredFields \subseteq keys)
        THEN ValidationError
        ELSE IF \/ Forbidden(DOMAIN val("repo"), RepoFields)
                \/ ~(RepoFields \subseteq DOMAIN val("repo"))
        THEN ValidationError
        ELSE IF \/ Forbidden(DOMAIN val("issue"), IssueFields)
                \/ ~(RequiredIssueFields \subseteq DOMAIN val("issue"))
        THEN ValidationError
        ELSE [k \in DeclaredFields |->
                 IF k \notin keys THEN dflt(k)
                 ELSE IF k \in DatetimeFields THEN fromisoformat(val(k))
                 ELSE IF k = "repo" THEN [f \in RepoFields |-> val(k)[f]]
                 ELSE IF k = "issue"
                 THEN [f \in IssueFields |->
                          IF f \in DOMAIN val(k)
                          THEN IF f \in DatetimeFields
                               THEN fromisoformat(val(k)[f]) ELSE val(k)[f]
                          ELSE IF f = "labels" THEN <<>> ELSE None]
                 ELSE val(k)]

\* the key publish pushes an event to: the constant, whatever the event is
KeyFor(e) == <<QUEUE_KEY>>

\* mutant: RPUSH, the new element becomes the tail of the list
lpush_AtTail(list, value) == list \o <<value>>

\* redis LPUSH: the new element becomes the head of the list
lpush(list, value) == <<value>> \o list

Reverse(list) == [i \in DOMAIN list |-> list[Len(list) + 1 - i]]

\* The consumer of the queue takes its elements from the tail of the list,
\* the end opposite to the one LPUSH adds to: the order in which it receives
\* the elements that are in the list.
ConsumerOrder(list) == Reverse(list)

\* ------------------------------------------- core.security / raw bodies
\* the webhook secrets in use: the gateway's and another one
Secrets == {"test-secret", "wrong-secret"}

\* A raw body is either the JSON text of a payload, <<"json", k>> with k the
\* first index of that payload in AllInputs, or a text that is no JSON.
json_dumps(p) == <<"json", CHOOSE k \in DOMAIN AllInputs :
                              /\ AllInputs[k][2] = p
                              /\ \A j \in DOMAIN AllInputs : AllInputs[j][2] = p => k <= j>>
NotJson == <<"not json", 0>>
IsJson(raw) == raw[1] = "json"
json_loads(raw) == AllInputs[raw[2]][2]

\* HMAC-SHA256 as a symbolic digest: the hex digest of (key, message) is
\* the pair itself, so two digests agree exactly when key and message do
hexdigest(secret, msg) == [key |-> secret, msg |-> msg]

\* a text that is the hex digest of no key and message
Text(t) == [key |-> "", msg |-> <<t, 0>>]

\* A header value is a string: its first seven characters (prefix), the rest
\* (digest) and whether all of it is ASCII. NoHeader is the absent header.
EmptyHeader == [prefix |-> "", digest |-> Text(""), ascii |-> TRUE]
NoHeader    == [prefix |-> None, digest |-> Text(""), ascii |-> TRUE]

\* the sender's side: "sha256=" + hmac.new(secret, payload, sha256).hexdigest()
sign(p, secret) == [prefix |-> "sha256=", digest |-> hexdigest(secret, p), ascii |-> TRUE]

\* hmac.compare_digest on two str: a TypeError when either holds a non-ASCII
\* character, else whether they are equal
compare_digest(a, b) ==
    IF ~(a.ascii /\ b.ascii) THEN "TypeError"
    ELSE IF a = b THEN "True" ELSE "False"

\* mutant: only the prefix of the header is looked at
verify_github_signature_PrefixOnly(p, signature_header, secret) ==
    IF signature_header = EmptyHeader \/ signature_header.prefix # "sha256="
    THEN "False"
    ELSE "True"

verify_github_signature(p, signature_header, secret) ==
    IF signature_header = EmptyHeader \/ signature_header.prefix # "sha256="
    THEN "False"
    ELSE compare_digest(sign(p, secret), signature_header)

\* ------------------------------------------------- table webhook_delivery
\* rows flushed by open transactions and not yet committed or rolled back
Tentative == {r \in Reqs : sess[r] = "flushed"}

\* columns declared nullable=False that handle can pass None for
NotNullOk(row) == row.repo_full_name # None

\* mutant: delivery_id declared without unique=True
UniqueViolation_NotDeclared(row, rows) == FALSE

\* mutant: the delivery id of an ignored delivery is recorded too, and a
\* later insert with that id violates the unique index
UniqueViolation_IgnoredRecorded(row, rows) ==
    \/ \E x \in rows : x.delivery_id = row.delivery_id
    \/ \E q \in Reqs : result[q] = IGNORED /\ did[q] = row.delivery_id

\* mutant: the unique index is on event_name instead of delivery_id
UniqueViolation_OnEventName(row, rows) == \E x \in rows : x.event_name = row.event_name

\* UNIQUE(delivery_id) against the committed rows
UniqueViolation(row, rows) == \E x \in rows : x.delivery_id = row.delivery_id

\* mutant: no unique index on delivery_id, nothing to violate or to wait for
Flush_NoUniqueIndex(r, row) ==
    IF ~NotNullOk(row) THEN "IntegrityError" ELSE "ok"

\* session.flush() of one added row by request r when the database answers:
\* "ok", "IntegrityError" (any constraint violation), or "wait" while another
\* open transaction holds an uncommitted row with the same delivery_id
Flush(r, row) ==
    IF ~NotNullOk(row) THEN "IntegrityError"
    ELSE IF UniqueViolation(row, ledger) THEN "IntegrityError"
    ELSE IF \E q \in Tentative \ {r} : did[q] = row.delivery_id THEN "wait"
    ELSE "ok"

\* mutant: no except clause, the IntegrityError propagates
InsertIfNew_Reraise(outcome) ==
    CASE outcome = "ok" ->
           [ret |-> "True", calls |-> <<"add", "flush">>, sess |-> "flushed"]
      [] OTHER ->
           [ret |-> outcome, calls |-> <<"add", "flush!">>, sess |-> "inactive"]

\* mutant: the except clause returns False without session.rollback()
InsertIfNew_NoRollback(outcome) ==
    CASE outcome = "ok" ->
           [ret |-> "True", calls |-> <<"add", "flush">>, sess |-> "flushed"]
      [] outcome = "IntegrityError" ->
           [ret |-> "False", calls |-> <<"add", "flush!">>, sess |-> "inactive"]
      [] OTHER ->
           [ret |-> outcome, calls |-> <<"add", "flush!">>, sess |-> "inactive"]

\* ------------------------- WebhookDeliveryRepository.insert_if_new (try/except)
\* what insert_if_new does with the outcome of flush: its return value (or the
\* error it lets through), the calls it made and the session it leaves
InsertIfNew(outcome) ==
    CASE outcome = "ok" ->
           [ret |-> "True", calls |-> <<"add", "flush">>, sess |-> "flushed"]
      [] outcome = "IntegrityError" ->
           [ret |-> "False", calls |-> <<"add", "flush!", "rollback">>, sess |-> "rolledback"]
      [] OTHER ->
           [ret |-> outcome, calls |-> <<"add", "flush!">>, sess |-> "inactive"]

\* ---------------------------------------------------------------- actions
\* mutant: the publish call left out, commit straight after the insert
Then_NoPublish(step) ==
    CASE step = "insert"  -> "commit"
      [] step = "publish" -> "commit"
      [] step = "commit"  -> "returned"

\* mutant: commit first and publish after it
Then_CommitFirst(step) ==
    CASE step = "insert"  -> "commit"
      [] step = "commit"  -> "publish"
      [] step = "publish" -> "returned"

\* the order of the awaited calls of handle once the filter has passed:
\* insert_if_new, publish, commit, return QUEUED
Then(step) ==
    CASE step = "insert"  -> "publish"
      [] step = "publish" -> "commit"
      [] step = "commit"  -> "returned"

\* mutant: handle does not look at is_new
IsNew_Unchecked(ret) == TRUE

\* `if not is_new: return DUPLICATE`
IsNew(ret) == ret = "True"

\* handle moves request r on after `step` has returned
Proceed(r, step) ==
    /\ pc' = [pc EXCEPT ![r] = Then(step)]
    /\ result' = [result EXCEPT ![r] = IF Then(step) = "returned" THEN QUEUED ELSE @]

\* mutant: a failed publish is swallowed and handle goes on to commit
Raise_PublishSwallowed(r, error) ==
    /\ pc' = [pc EXCEPT ![r] = IF error = "PublishError" THEN "commit" ELSE "raised"]
    /\ result' = [result EXCEPT ![r] = error]

\* an error raised at the current await propagates out of handle
Raise(r, error) ==
    /\ pc' = [pc EXCEPT ![r] = "raised"]
    /\ result' = [result EXCEPT ![r] = error]

\* ------------------------------------------------ the consumer's side
Pending == [pending |-> TRUE]

\* nothing is being decoded
NoMessage == [event |-> Pending, json |-> <<>>, decoded |-> Pending]

\* the pairs of AllInputs handle builds an event from
BuildableInputs ==
    {i \in DOMAIN AllInputs :
        /\ InScope(AllInputs[i][1], AllInputs[i][2])
        /\ HasRoutingFields(AllInputs[i][2])
        /\ CanBuildEvent(AllInputs[i][2])
        /\ AllInputs[i][2].repository.full_name # None}

\* the events handle builds, for any delivery id and time of receipt
Events ==
    {NormalizedEvent(d, AllInputs[i][1], AllInputs[i][2], at) :
        d \in DeliveryIds, i \in BuildableInputs, at \in Reqs}

\* JSON texts that are not what model_dump_json gives: a member added at the
\* top level, inside repo or inside issue, or a member left out
WithField(obj, key, value) ==
    [f \in DOMAIN obj \cup {key} |-> IF f = key THEN value ELSE obj[f]]
SetMember(msg, key, value) ==
    [i \in DOMAIN msg |-> IF msg[i][1] = key THEN <<key, value>> ELSE msg[i]]
DropMember(msg, key) ==
    LET Keep(m) == m[1] # key IN SelectSeq(msg, Keep)

Changes ==
    {"intact", "extra at top", "extra in repo", "extra in issue",
     "no trace_id", "no delivery_id"}

Changed(msg, change) ==
    CASE change = "intact" -> msg
      [] change = "extra at top" -> Append(msg, <<"unexpected_field", "nope">>)
      [] change = "extra in repo" ->
            SetMember(msg, "repo", WithField(Member(msg, "repo"), "unexpected_field", "nope"))
      [] change = "extra in issue" ->
            SetMember(msg, "issue", WithField(Member(msg, "issue"), "unexpected_field", "nope"))
      [] change = "no trace_id" -> DropMember(msg, "trace_id")
      [] change = "no delivery_id" -> DropMember(msg, "delivery_id")

\* ------------------------------------------------ the HTTP request
\* `not x` for a header value: the header is absent or empty
Missing(x) == x = None \/ x = ""

\* x_hub_signature_256 or ""
OrEmpty(h) == IF h = NoHeader THEN EmptyHeader ELSE h

\* no HTTP request: handle is called directly
NoRequest ==
    [x_github_event |-> None, x_github_delivery |-> None,
     x_hub_signature_256 |-> NoHeader, raw_body |-> <<"none", 0>>]

\* the values of X-Hub-Signature-256 a request with raw body b may carry:
\* none, the empty one, texts with and without the prefix, a non-ASCII one,
\* and signatures made with either secret over the body or over another one,
\* with the sha256= prefix, without a prefix and with another prefix
SignatureHeaders(b) ==
    {NoHeader, EmptyHeader,
     [prefix |-> "", digest |-> Text("badhash"), ascii |-> TRUE],
     [prefix |-> "sha256=", digest |-> Text("badhash"), ascii |-> TRUE],
     [prefix |-> "sha256=", digest |-> Text("badhash"), ascii |-> FALSE]}
    \cup {sign(m, k) : m \in {b, json_dumps(ClosedPayload)}, k \in Secrets}
    \cup {[sign(b, k) EXCEPT !.prefix = x] : x \in {"", "sha1="}, k \in Secrets}

\* the requests that carry the event name and payload of AllInputs[i], with
\* each header present, empty or absent and the body intact or not JSON
RequestsFor(i) ==
    UNION {
        {[x_github_event |-> e, x_github_delivery |-> d,
          x_hub_signature_256 |-> g, raw_body |-> b] :
            e \in {None, "", AllInputs[i][1]},
            d \in DeliveryIds \cup {None, ""},
            g \in SignatureHeaders(b)} :
        b \in {json_dumps(AllInputs[i][2]), NotJson}}

HttpRequests == UNION {RequestsFor(i) : i \in DOMAIN AllInputs}

Init ==
    /\ pc = [r \in Reqs |-> "idle"]
    /\ inp = [r \in Reqs |-> 0]
    /\ did = [r \in Reqs |-> ""]
    /\ result = [r \in Reqs |-> "none"]
    /\ sess = [r \in Reqs |-> "none"]
    /\ calls = [r \in Reqs |-> <<>>]
    /\ before = [r \in Reqs |-> {}]
    /\ ledger = {}
    /\ queue = <<>>
    /\ http = [r \in Reqs |-> NoRequest]
    /\ verified = [r \in Reqs |-> "none"]
    /\ settings = [github_webhook_secret |-> "test-secret"]
    /\ client = [r \in Reqs |-> "none"]
    /\ consumer = NoMessage

\* The service of a request depends on a session of its own (get_db) and a
\* Redis client of its own (get_redis): both are set up before the endpoint
\* runs.
get_ingest_service(r) ==
    /\ sess' = [sess EXCEPT ![r] = "open"]
    /\ client' = [client EXCEPT ![r] = "open"]

\* A request reaches handle with its own session (get_db): the filter and
\* the extraction of the routing fields (ingest.py lines 38-45).
Handle(r, d, i) ==
    /\ did' = [did EXCEPT ![r] = d]
    /\ inp' = [inp EXCEPT ![r] = i]
    /\ LET name == AllInputs[i][1]
           p    == AllInputs[i][2]
       IN  IF ~InScope(name, p)
           THEN /\ pc' = [pc EXCEPT ![r] = "returned"]
                /\ result' = [result EXCEPT ![r] = IGNORED]
           ELSE IF ~HasRoutingFields(p)
           THEN Raise(r, "KeyError")
           ELSE /\ pc' = [pc EXCEPT ![r] = "insert"]
                /\ UNCHANGED result
    /\ get_ingest_service(r)
    /\ before' = [before EXCEPT ![r] = {q \in Reqs : Ended(q)}]

\* handle is called directly, with any delivery id and any pair of Inputs
HandleStart(r) ==
    /\ pc[r] = "idle"
    /\ \A q \in 1..(r - 1) : pc[q] # "idle"
    /\ \E d \in DeliveryIds, i \in DOMAIN Inputs : Handle(r, d, i)
    /\ UNCHANGED <<calls, ledger, queue, endpoint, consumer>>

\* await self._repo.insert_if_new(...), the duplicate check and the
\* construction of the NormalizedEvent (ingest.py lines 47-86).
Insert(r) ==
    /\ pc[r] = "insert"
    /\ \E up \in BOOLEAN :
         LET outcome == IF up THEN Flush(r, RowOf(r)) ELSE "OperationalError"
             ins     == InsertIfNew(outcome)
         IN  /\ outcome # "wait"
             /\ calls' = [calls EXCEPT ![r] = @ \o ins.calls]
             /\ sess' = [sess EXCEPT ![r] = ins.sess]
             /\ IF ins.ret \notin {"True", "False"}
                THEN Raise(r, ins.ret)
                ELSE IF ~IsNew(ins.ret)
                THEN /\ pc' = [pc EXCEPT ![r] = "returned"]
                     /\ result' = [result EXCEPT ![r] = DUPLICATE]
                ELSE IF ~CanBuildEvent(payload(r))
                THEN Raise(r, BuildError(payload(r)))
                ELSE Proceed(r, "insert")
    /\ UNCHANGED <<inp, did, before, ledger, queue, endpoint, client, consumer>>

\* await self._publisher.publish(event) (ingest.py line 88, queue.py 14-15)
Publish(r) ==
    /\ pc[r] = "publish"
    /\ \E ok \in BOOLEAN :
         IF ok
         THEN /\ queue' = IF KeyFor(EventOf(r)) = <<QUEUE_KEY>>
                        THEN lpush(queue, model_dump_json(EventOf(r)))
                        ELSE queue
              /\ calls' = [calls EXCEPT ![r] = Append(@, "publish")]
              /\ Proceed(r, "publish")
         ELSE /\ calls' = [calls EXCEPT ![r] = Append(@, "publish!")]
              /\ Raise(r, "PublishError")
              /\ UNCHANGED queue
    /\ UNCHANGED <<inp, did, sess, before, ledger, endpoint, client, consumer>>

\* await self._session.commit(); return QUEUED (ingest.py lines 89-91)
Commit(r) ==
    /\ pc[r] = "commit"
    /\ \E ok \in BOOLEAN :
         IF ok
         THEN /\ ledger' = ledger \cup {RowOf(r)}
              /\ sess' = [sess EXCEPT ![r] = "committed"]
              /\ calls' = [calls EXCEPT ![r] = Append(@, "commit")]
              /\ Proceed(r, "commit")
         ELSE /\ calls' = [calls EXCEPT ![r] = Append(@, "commit!")]
              /\ Raise(r, "CommitError")
              /\ UNCHANGED <<ledger, sess>>
    /\ UNCHANGED <<inp, did, before, queue, endpoint, client, consumer>>

\* mutant: the session is yielded without `async with` and never closed
CloseSession_Leaked(s) == s

\* leaving `async with` closes the session, whatever state it is in
CloseSession(s) == "closed"

\* mutant: `yield client` without try/finally, the client is closed only
\* when the endpoint has returned
CloseClient_NoFinally(c, exit) == IF exit = "returned" THEN "closed" ELSE c

\* the finally of get_redis closes the client however the request has ended
CloseClient(c, exit) == "closed"

\* The request ends: get_db leaves `async with`, the session is closed and an
\* uncommitted transaction is rolled back (deps.py lines 100-101); the
\* finally of get_redis closes the client (deps.py lines 137-141).
Close(r) ==
    /\ pc[r] \in {"returned", "raised", "rejected"}
    /\ pc' = [pc EXCEPT ![r] = "closed"]
    /\ sess' = [sess EXCEPT ![r] = CloseSession(@)]
    /\ client' = [client EXCEPT ![r] = CloseClient(@, pc[r])]
    /\ UNCHANGED <<inp, did, result, calls, before, ledger, queue, endpoint, consumer>>

Next ==
    \E r \in Reqs :
        \/ HandleStart(r)
        \/ Insert(r)
        \/ Publish(r)
        \/ Commit(r)
        \/ Close(r)

Spec == Init /\ [][Next]_vars

\* the database answers the flush of request r (with success or a violation)
Answered(r) == Insert(r) /\ result'[r] # "OperationalError"

\* The event loop runs every task that is ready and every awaited call that
\* can be answered is answered: a flush that is not waiting for a lock, a
\* publish, a commit, and the teardown of get_db after the handler has ended.
\* Nothing is assumed about a flush that waits for another transaction.
FairSpec ==
    /\ Spec
    /\ \A r \in Reqs :
         /\ WF_vars(Answered(r))
         /\ WF_vars(Publish(r))
         /\ WF_vars(Commit(r))
         /\ WF_vars(Close(r))

\* ------------------------------------------- routes.receive_github_webhook
\* verify_github_signature(raw_body, x_hub_signature_256 or "", secret)
SignatureCheck(h, secret) ==
    verify_github_signature(h.raw_body, OrEmpty(h.x_hub_signature_256), secret)

\* mutant: the signature is not verified
Validate_NoSignature(h, secret) ==
    IF Missing(h.x_github_event) THEN "400 Missing X-GitHub-Event header"
    ELSE IF Missing(h.x_github_delivery) THEN "400 Missing X-GitHub-Delivery header"
    ELSE IF ~IsJson(h.raw_body) THEN "400 Invalid JSON body"
    ELSE "ok"

\* the checks of the endpoint before it calls handle, in the order of the
\* code: the HTTPException (status and detail) of the first one that fails,
\* the error verify_github_signature raised, or "ok"
Validate(h, secret) ==
    IF Missing(h.x_github_event) THEN "400 Missing X-GitHub-Event header"
    ELSE IF Missing(h.x_github_delivery) THEN "400 Missing X-GitHub-Delivery header"
    ELSE IF SignatureCheck(h, secret) \notin {"True", "False"} THEN SignatureCheck(h, secret)
    ELSE IF SignatureCheck(h, secret) = "False" THEN "401 Invalid signature"
    ELSE IF ~IsJson(h.raw_body) THEN "400 Invalid JSON body"
    ELSE "ok"

\* the pair handle is called with: event_name=x_github_event, payload=json.loads(raw_body)
InputIndex(name, p) == CHOOSE k \in DOMAIN AllInputs : AllInputs[k] = <<name, p>>

\* The endpoint receives request r (its dependencies, the session among
\* them, are set up before its body runs), checks it and either raises or
\* calls handle, which runs to its first await (webhook.py lines 26-46).
Receive(r) ==
    /\ pc[r] = "idle"
    /\ http[r] # NoRequest
    /\ LET h  == http[r]
           st == Validate(h, settings.github_webhook_secret)
       IN  /\ verified' = [verified EXCEPT ![r] =
                 IF Missing(h.x_github_event) \/ Missing(h.x_github_delivery)
                 THEN "none"
                 ELSE SignatureCheck(h, settings.github_webhook_secret)]
           /\ IF st = "ok"
              THEN Handle(r, h.x_github_delivery,
                          InputIndex(h.x_github_event, json_loads(h.raw_body)))
              ELSE /\ pc' = [pc EXCEPT ![r] = "rejected"]
                   /\ result' = [result EXCEPT ![r] = st]
                   /\ get_ingest_service(r)
                   /\ UNCHANGED <<inp, did, before>>
    /\ UNCHANGED <<calls, ledger, queue, http, settings, consumer>>

\* mutant: the ignored answer echoes the delivery id, like the other two
ResponseBody_AlwaysDelivery(res, h) ==
    [status      |-> IF res = DUPLICATE THEN "duplicate"
                     ELSE IF res = IGNORED THEN "ignored" ELSE "queued",
     delivery_id |-> h.x_github_delivery]

\* the dict the endpoint returns for the result of handle (lines 48-52)
ResponseBody(res, h) ==
    IF res = DUPLICATE
    THEN [status |-> "duplicate", delivery_id |-> h.x_github_delivery]
    ELSE IF res = IGNORED
    THEN [status |-> "ignored", event |-> h.x_github_event]
    ELSE [status |-> "queued", delivery_id |-> h.x_github_delivery]

\* the HTTP status of the answer: 202 when the endpoint returns, the status
\* of the HTTPException it raised, 500 for any other error
StatusCode(res) ==
    CASE res \in IngestResult -> 202
      [] res \in {"400 Missing X-GitHub-Event header",
                  "400 Missing X-GitHub-Delivery header",
                  "400 Invalid JSON body"} -> 400
      [] res = "401 Invalid signature" -> 401
      [] OTHER -> 500

\* the answer to request r once its endpoint call is over
Response(r) ==
    IF result[r] \in IngestResult
    THEN [status_code |-> StatusCode(result[r]), body |-> ResponseBody(result[r], http[r])]
    ELSE [status_code |-> StatusCode(result[r]), body |-> [detail |-> result[r]]]

\* the ledger row and the queue element an earlier delivery "D1" has left
PriorRow == Row("D1", "issues", ISSUE_PAYLOAD, 0)
PriorEvent == model_dump_json(NormalizedEvent("D1", "issues", ISSUE_PAYLOAD, 0))

\* One request comes in through the endpoint: any request of HttpRequests,
\* any of the secrets as the gateway's, on an empty ledger and queue or
\* after an earlier delivery "D1" has been queued and committed.
InitRequest ==
    /\ pc = [r \in Reqs |-> "idle"]
    /\ inp = [r \in Reqs |-> 0]
    /\ did = [r \in Reqs |-> ""]
    /\ result = [r \in Reqs |-> "none"]
    /\ sess = [r \in Reqs |-> "none"]
    /\ calls = [r \in Reqs |-> <<>>]
    /\ before = [r \in Reqs |-> {}]
    /\ \E prior \in BOOLEAN :
         /\ ledger = IF prior THEN {PriorRow} ELSE {}
         /\ queue = IF prior THEN <<PriorEvent>> ELSE <<>>
    /\ \E h \in HttpRequests :
         http = [r \in Reqs |-> IF r = 1 THEN h ELSE NoRequest]
    /\ verified = [r \in Reqs |-> "none"]
    /\ \E k \in Secrets : settings = [github_webhook_secret |-> k]
    /\ client = [r \in Reqs |-> "none"]
    /\ consumer = NoMessage

NextRequest ==
    \E r \in Reqs :
        \/ Receive(r)
        \/ Insert(r)
        \/ Publish(r)
        \/ Commit(r)
        \/ Close(r)

SpecRequest == InitRequest /\ [][NextRequest]_vars

\* ---------------------------------------------------------------- decoding
\* A JSON text is on the consumer's side: the text publish makes of an event
\* of Events, intact or changed.
InitDecode ==
    /\ pc = [r \in Reqs |-> "idle"]
    /\ inp = [r \in Reqs |-> 0]
    /\ did = [r \in Reqs |-> ""]
    /\ result = [r \in Reqs |-> "none"]
    /\ sess = [r \in Reqs |-> "none"]
    /\ calls = [r \in Reqs |-> <<>>]
    /\ before = [r \in Reqs |-> {}]
    /\ ledger = {}
    /\ queue = <<>>
    /\ http = [r \in Reqs |-> NoRequest]
    /\ verified = [r \in Reqs |-> "none"]
    /\ settings = [github_webhook_secret |-> "test-secret"]
    /\ client = [r \in Reqs |-> "none"]
    /\ \E e \in Events, change \in Changes :
         consumer = [event |-> e, json |-> Changed(model_dump_json(e), change),
                     decoded |-> Pending]

\* NormalizedEvent.model_validate_json(text)
Decode ==
    /\ consumer.decoded = Pending
    /\ consumer.json # <<>>
    /\ consumer' = [consumer EXCEPT !.decoded = model_validate_json(consumer.json)]
    /\ UNCHANGED <<pc, inp, did, result, sess, calls, before, ledger, queue,
                   http, verified, settings, client>>

SpecDecode == InitDecode /\ [][Decode]_vars

\* ------------------------------------------------------------ cancellation
\* The task of request r is cancelled (the sender has gone, the server shuts
\* down) while handle awaits a call: CancelledError is raised at that await
\* and propagates. The call in flight may or may not have taken effect on
\* the database or the queue before it was interrupted.
Cancel(r) ==
    /\ pc[r] \in {"insert", "publish", "commit"}
    /\ \E done \in BOOLEAN :
         CASE pc[r] = "insert" ->
                /\ calls' = [calls EXCEPT ![r] = @ \o <<"add", "flush!">>]
                /\ sess' = [sess EXCEPT ![r] =
                      IF done /\ Flush(r, RowOf(r)) = "ok" THEN "flushed" ELSE "inactive"]
                /\ UNCHANGED <<ledger, queue>>
           [] pc[r] = "publish" ->
                /\ calls' = [calls EXCEPT ![r] = Append(@, "publish!")]
                /\ queue' = IF done THEN lpush(queue, model_dump_json(EventOf(r))) ELSE queue
                /\ UNCHANGED <<ledger, sess>>
           [] pc[r] = "commit" ->
                /\ calls' = [calls EXCEPT ![r] = Append(@, "commit!")]
                /\ ledger' = IF done THEN ledger \cup {RowOf(r)} ELSE ledger
                /\ sess' = [sess EXCEPT ![r] = IF done THEN "committed" ELSE @]
                /\ UNCHANGED queue
    /\ Raise(r, "CancelledError")
    /\ UNCHANGED <<inp, did, before, endpoint, client, consumer>>

NextCancel ==
    \E r \in Reqs :
        \/ Receive(r)
        \/ Insert(r)
        \/ Publish(r)
        \/ Commit(r)
        \/ Cancel(r)
        \/ Close(r)

\* one request through the endpoint, which may be cancelled at any await
SpecCancel == InitRequest /\ [][NextCancel]_vars

\* ------------------------------------------------------------- redelivery
\* the errors of the collaborators: database or queue unavailable
InfraErrors == {"OperationalError", "PublishError", "CommitError"}

\* The sender has one in-scope delivery. It sends it, and sends it again with
\* the same delivery id and payload whenever the answer was not a 2xx; request
\* r is its r-th attempt.
Redeliver(r) ==
    /\ pc[r] = "idle"
    /\ IF r = 1
       THEN \E d \in DeliveryIds, i \in DOMAIN AllInputs :
                /\ InScope(AllInputs[i][1], AllInputs[i][2])
                /\ Handle(r, d, i)
       ELSE /\ pc[r - 1] = "closed"
            /\ StatusCode(result[r - 1]) # 202
            /\ Handle(r, did[r - 1], inp[r - 1])
    /\ UNCHANGED <<calls, ledger, queue, endpoint, consumer>>

\* the database and the queue fail at any call of the earlier attempts and
\* have recovered by the last one
Recovered(r) == r = MaxReq => result'[r] \notin InfraErrors

\* the awaited calls of attempt r
InsertAttempt(r) == Insert(r) /\ Recovered(r)
PublishAttempt(r) == Publish(r) /\ Recovered(r)
CommitAttempt(r) == Commit(r) /\ Recovered(r)

NextRedeliver ==
    \E r \in Reqs :
        \/ Redeliver(r)
        \/ InsertAttempt(r)
        \/ PublishAttempt(r)
        \/ CommitAttempt(r)
        \/ Close(r)

\* The sender does send and redeliver, and the event loop runs every step
\* that is ready: each attempt is sequential, so no flush waits for a lock.
SpecRedeliver ==
    /\ Init /\ [][NextRedeliver]_vars
    /\ \A r \in Reqs :
         /\ WF_vars(Redeliver(r))
         /\ WF_vars(InsertAttempt(r))
         /\ WF_vars(PublishAttempt(r))
         /\ WF_vars(CommitAttempt(r))
         /\ WF_vars(Close(r))

\* ------------------------------------------------------ derived quantities
\* the events in the queue that carry delivery id d
PushedFor(d) == {i \in DOMAIN queue : Member(queue[i], "delivery_id") = d}

\* the handle calls for delivery id d whose commit raised after their publish
CommitFailedFor(d) == {r \in Reqs : did[r] = d /\ result[r] = "CommitError"}

\* the committed rows with delivery id d
RowsFor(d) == {x \in ledger : x.delivery_id = d}

Started(r) == pc[r] # "idle"
IsInScope(r) == Started(r) /\ event_name(r) = "issues" /\ action(payload(r)) = "opened"

\* an in-scope request whose payload has every field handle reads, none of
\* them null (the payloads section 4.3 of the design assumes)
WellFormed(r) ==
    /\ IsInScope(r)
    /\ HasRoutingFields(payload(r))
    /\ CanBuildEvent(payload(r))
    /\ NotNullOk(RowOf(r))

\* insert_if_new of request r has returned True / False
InsertedNew(r) == Len(calls[r]) >= 2 /\ calls[r][2] = "flush"
InsertedDup(r) == Len(calls[r]) >= 3 /\ calls[r][3] = "rollback"

\* request r holds a ledger row, tentative or durable
HoldsRow(r) == r \in Tentative \/ (InsertedNew(r) /\ RowOf(r) \in ledger)

\* the event of request r is in the queue
InQueue(r) == \E i \in DOMAIN queue : queue[i] = model_dump_json(EventOf(r))

\* request q's handle ran wholly before r's began
Earlier(q, r) == Started(r) /\ q \in before[r]

\* the two handle calls overlapped in time
Concurrent(q, r) == q # r /\ Started(q) /\ Started(r) /\ ~Earlier(q, r) /\ ~Earlier(r, q)

\* ------------------------------------------------------------------ claims

\* C1 (as stated): for any sequence and interleaving of handle calls, with
\* sender retries and failures of publish or commit, at most one event per
\* delivery id is ever pushed to the queue.
C1_AtMostOnePushPerDelivery ==
    \A d \in DeliveryIds : Cardinality(PushedFor(d)) <= 1

\* C1 (amended): the events pushed for a delivery id number at most one plus
\* the handle calls for that id whose commit failed after a successful
\* publish; with no such commit failure there is at most one.
C1_AtMostOnePushPerCommitFailure ==
    \A d \in DeliveryIds :
        Cardinality(PushedFor(d)) <= 1 + Cardinality(CommitFailedFor(d))

\* a retry re-enqueued a delivery whose first commit had failed
C1_Witness ==
    \E d \in DeliveryIds :
        /\ Cardinality(CommitFailedFor(d)) = 1
        /\ Cardinality(PushedFor(d)) = 2

\* C2: in every handle call the side effects come in the order tentative
\* insert (flush in an open transaction), publish, commit: publish is called
\* only right after a flush that succeeded, commit only right after a publish
\* that returned; while publish and commit are pending the row is tentative,
\* not durable, and a durable row is preceded by its event in the queue.
C2_InsertPublishCommitOrder ==
    \A r \in Reqs :
        LET c == calls[r] IN
        /\ \A i \in DOMAIN c :
             /\ c[i] \in {"publish", "publish!"} => (i > 1 /\ c[i - 1] = "flush")
             /\ c[i] \in {"commit", "commit!"} => (i > 1 /\ c[i - 1] = "publish")
        /\ pc[r] \in {"publish", "commit"} =>
             (sess[r] = "flushed" /\ RowOf(r) \notin ledger)
        /\ pc[r] = "commit" => InQueue(r)
        /\ result[r] = QUEUED =>
             (c = <<"add", "flush", "publish", "commit">> /\ InQueue(r) /\ RowOf(r) \in ledger)

C2_Witness ==
    \E r \in Reqs :
        /\ result[r] = QUEUED
        /\ calls[r] = <<"add", "flush", "publish", "commit">>
        /\ InQueue(r) /\ RowOf(r) \in ledger

\* C3: when publish succeeded and commit failed, the queue keeps the event
\* and the row never becomes durable (it is gone once the session is closed);
\* a later well-formed handle call with the same delivery id that meets no
\* committed row of a third call is not answered DUPLICATE: it inserts as
\* new, and once it has published the queue holds two events for the id.
C3_CommitFailureReEnqueues ==
    \A r1 \in Reqs :
        result[r1] = "CommitError" =>
            /\ InQueue(r1)
            /\ RowOf(r1) \notin ledger
            /\ pc[r1] = "closed" => ~HoldsRow(r1)
            /\ \A r2 \in Reqs \ {r1} :
                 ( /\ Earlier(r1, r2)
                   /\ did[r2] = did[r1]
                   /\ WellFormed(r2)
                   /\ RowsFor(did[r2]) \subseteq {RowOf(r2)} ) =>
                     /\ result[r2] # DUPLICATE
                     /\ result[r2] \notin InfraErrors /\ Ended(r2) => result[r2] = QUEUED
                     /\ "publish" \in {calls[r2][i] : i \in DOMAIN calls[r2]} =>
                          Cardinality(PushedFor(did[r2])) >= 2

C3_Witness ==
    \E r1, r2 \in Reqs :
        /\ result[r1] = "CommitError" /\ pc[r1] = "closed"
        /\ Earlier(r1, r2) /\ did[r2] = did[r1]
        /\ result[r2] = QUEUED
        /\ Cardinality(PushedFor(did[r1])) = 2
        /\ Cardinality(RowsFor(did[r1])) = 1

\* C4: for a fixed delivery id and well-typed rows, of the insert_if_new
\* calls of separate sessions at most one holds a row (tentative or durable)
\* at any time; a call that returned False holds no row and left its session
\* rolled back; and, as long as no call that returned True had its
\* transaction rolled back by a later failure, exactly one of the calls that
\* the database answered returned True and every other one False.
C4_OneInsertWins ==
    \A d \in DeliveryIds :
        LET done  == {r \in Reqs : did[r] = d /\ Len(calls[r]) >= 2 /\ NotNullOk(RowOf(r))}
            true  == {r \in done : InsertedNew(r)}
            false == {r \in done : InsertedDup(r)}
            undone == {r \in true : pc[r] \in {"raised", "closed"} /\ result[r] # QUEUED}
        IN  /\ Cardinality({r \in done : r \in Tentative}) + Cardinality(RowsFor(d)) <= 1
            /\ \A r \in false :
                 /\ ~HoldsRow(r)
                 /\ sess[r] \in {"rolledback", "closed"}
                 /\ result[r] = DUPLICATE
            /\ \A r \in done \ (true \cup false) : result[r] = "OperationalError"
            /\ undone = {} =>
                 /\ Cardinality(true) <= 1
                 /\ (true \cup false) # {} => Cardinality(true) = 1

\* two overlapping calls for one delivery id: one True and durable, one False
C4_Witness ==
    \E q, r \in Reqs :
        /\ Concurrent(q, r) /\ did[q] = did[r]
        /\ WellFormed(q) /\ WellFormed(r)
        /\ InsertedNew(q) /\ RowOf(q) \in ledger
        /\ InsertedDup(r) /\ ~HoldsRow(r)

\* C5: of the in-scope handle calls for one delivery id, as long as none of
\* them met a failure (a database, publish or commit error, a missing or
\* null payload field), at most one has won the ledger insert, every one
\* that has ended returned QUEUED (the winner) or DUPLICATE (after the
\* uniqueness violation of its flush, rolled back), and once all have ended
\* exactly one returned QUEUED.
C5_OneHandleWins ==
    \A d \in DeliveryIds :
        LET S == {r \in Reqs : did[r] = d /\ IsInScope(r)}
            failed == \E r \in S : result[r] \in InfraErrors \cup {"KeyError"} \/ ~WellFormed(r)
        IN  ~failed =>
              /\ Cardinality({r \in S : InsertedNew(r)}) <= 1
              /\ \A r \in S : Ended(r) =>
                   /\ result[r] \in {QUEUED, DUPLICATE}
                   /\ result[r] = QUEUED <=> InsertedNew(r)
                   /\ result[r] = DUPLICATE =>
                        /\ calls[r] = <<"add", "flush!", "rollback">>
                        /\ \E q \in S \ {r} : result[q] = QUEUED
              /\ (S # {} /\ \A r \in S : Ended(r)) =>
                   Cardinality({r \in S : result[r] = QUEUED}) = 1

\* two overlapping handle calls for one delivery id: one QUEUED, one DUPLICATE
C5_Witness ==
    \E q, r \in Reqs :
        /\ Concurrent(q, r) /\ did[q] = did[r]
        /\ WellFormed(q) /\ WellFormed(r)
        /\ result[q] = QUEUED /\ result[r] = DUPLICATE

\* C6: insert_if_new returns False, and handle answers DUPLICATE, only when
\* a ledger row with the same delivery id exists; any other insert failure
\* is raised.
C6_FalseOnlyForExistingDelivery ==
    \A r \in Reqs :
        (InsertedDup(r) \/ result[r] = DUPLICATE) => RowsFor(did[r]) # {}

\* C7: when a committed ledger row with the same delivery id exists and the
\* database answers, insert_if_new returns False without raising (handle
\* returns DUPLICATE) after rolling the session back: the calls are add,
\* flush (raising), rollback, and no pending row or failed transaction is left.
C7_DuplicateRollsBack ==
    [][\A r \in Reqs :
         ( /\ pc[r] = "insert" /\ pc'[r] # "insert"
           /\ RowsFor(did[r]) # {}
           /\ result'[r] # "OperationalError" ) =>
             /\ result'[r] = DUPLICATE /\ pc'[r] = "returned"
             /\ calls'[r] = <<"add", "flush!", "rollback">>
             /\ sess'[r] = "rolledback"
             /\ ledger' = ledger]_vars

C7_Witness ==
    \E r \in Reqs :
        /\ WellFormed(r) /\ RowsFor(did[r]) # {}
        /\ result[r] = DUPLICATE /\ InsertedDup(r)
        /\ sess[r] = "rolledback"

\* C8: a handle call whose event name is not "issues", or is "issues" with
\* an action other than "opened" (an absent action included), returns
\* IGNORED at once; it calls neither insert_if_new (add, flush) nor publish
\* nor commit, then or later, and no step of it changes ledger or queue.
C8_IgnoredTouchesNothing ==
    [][\A r \in Reqs :
         LET name == Inputs[inp'[r]][1]
             p    == Inputs[inp'[r]][2]
             out  == \/ name # "issues"
                     \/ name = "issues" /\ Get(p, "action", None) # "opened"
         IN  /\ (pc[r] = "idle" /\ pc'[r] # "idle" /\ out) =>
                  /\ result'[r] = IGNORED /\ pc'[r] = "returned"
                  /\ calls'[r] = <<>>
                  /\ ledger' = ledger /\ queue' = queue
             /\ result[r] = IGNORED =>
                  /\ result'[r] = IGNORED /\ calls'[r] = <<>>
                  /\ pc'[r] # pc[r] => (ledger' = ledger /\ queue' = queue)]_vars

\* an ignored "push" and an ignored "issues" without action, nothing touched
C8_Witness ==
    \E q, r \in Reqs :
        /\ result[q] = IGNORED /\ event_name(q) = "push"
        /\ result[r] = IGNORED /\ event_name(r) = "issues"
        /\ "action" \notin DOMAIN payload(r)
        /\ pc[q] = "closed" /\ pc[r] = "closed"
        /\ calls[q] = <<>> /\ calls[r] = <<>>
        /\ ledger = {} /\ queue = <<>>

\* an in-scope handle call with its routing fields that began after a call
\* with the same delivery id had returned QUEUED
AfterQueued(r) ==
    /\ IsInScope(r) /\ HasRoutingFields(payload(r))
    /\ \E q \in before[r] : did[q] = did[r] /\ result[q] = QUEUED

\* C9: after a handle call for a delivery id has returned QUEUED, a later
\* in-scope handle call with the same delivery id returns nothing but
\* DUPLICATE (it raises only if the database does not answer), calls neither
\* publish nor commit, and none of its steps changes the queue or the
\* committed ledger.
C9_LaterCallIsDuplicate ==
    [][\A r \in Reqs :
         AfterQueued(r)' =>
           /\ result'[r] \in {"none", DUPLICATE, "OperationalError"}
           /\ Ended(r)' /\ result'[r] # "OperationalError" => result'[r] = DUPLICATE
           /\ \A i \in DOMAIN calls'[r] :
                calls'[r][i] \notin {"publish", "publish!", "commit", "commit!"}
           /\ pc'[r] # pc[r] => (queue' = queue /\ ledger' = ledger)]_vars

C9_Witness ==
    \E q, r \in Reqs :
        /\ Earlier(q, r) /\ did[q] = did[r]
        /\ result[q] = QUEUED /\ result[r] = DUPLICATE
        /\ WellFormed(r) /\ pc[r] = "closed"
        /\ Len(queue) = 1 /\ ledger = {RowOf(q)}

\* request r is the first handle call for its delivery id: every other call
\* with that id began after it, and none got its insert in before it
First(r) ==
    \A q \in Reqs \ {r} :
        (Started(q) /\ did[q] = did[r]) => (q > r /\ ~InsertedNew(q))

\* C10: the first handle call for a delivery id, in scope and well formed,
\* that ends without a database or queue error returns QUEUED after exactly
\* one publish and one commit, and the one event in the queue for the
\* delivery id has delivery_id and event_id equal to the input delivery id.
C10_FirstCallIsQueued ==
    \A r \in Reqs :
        (WellFormed(r) /\ First(r) /\ Ended(r) /\ result[r] \notin InfraErrors) =>
            /\ result[r] = QUEUED
            /\ Cardinality({i \in DOMAIN calls[r] : calls[r][i] \in {"publish", "publish!"}}) = 1
            /\ Cardinality({i \in DOMAIN calls[r] : calls[r][i] \in {"commit", "commit!"}}) = 1
            /\ calls[r] = <<"add", "flush", "publish", "commit">>
            /\ Cardinality(PushedFor(did[r])) = 1
            /\ \A i \in DOMAIN queue :
                 Member(queue[i], "received_at") = isoformat(received_at(r)) =>
                    /\ Member(queue[i], "delivery_id") = did[r]
                    /\ Member(queue[i], "event_id") = did[r]
            /\ \E i \in DOMAIN queue : Member(queue[i], "received_at") = isoformat(received_at(r))

C10_Witness ==
    \E r \in Reqs :
        /\ WellFormed(r) /\ First(r) /\ pc[r] = "closed"
        /\ result[r] = QUEUED
        /\ \E i \in DOMAIN queue :
             /\ Member(queue[i], "delivery_id") = did[r]
             /\ Member(queue[i], "event_id") = did[r]

\* ------------------------------------------------------------------ C11
\* the calls of request r that are publish or commit attempts
PublishCalls(r) == {i \in DOMAIN calls[r] : calls[r][i] \in {"publish", "publish!"}}
CommitCalls(r) == {i \in DOMAIN calls[r] : calls[r][i] \in {"commit", "commit!"}}
PublishFailed(r) == \E i \in DOMAIN calls[r] : calls[r][i] = "publish!"

\* C11: when publish raises during a handle call, the error propagates (the
\* call returns none of QUEUED, DUPLICATE, IGNORED), publish was attempted
\* exactly once, commit is never called for that request, and the request's
\* tentative ledger row never becomes durable: it is gone once the session
\* is closed.
C11_PublishFailurePropagates ==
    \A r \in Reqs :
        PublishFailed(r) =>
            /\ pc[r] \in {"raised", "closed"}
            /\ result[r] = "PublishError"
            /\ result[r] \notin IngestResult
            /\ Cardinality(PublishCalls(r)) = 1
            /\ CommitCalls(r) = {}
            /\ calls[r] = <<"add", "flush", "publish!">>
            /\ RowOf(r) \notin ledger
            /\ (pc[r] = "closed" => r \notin Tentative)

C11_Witness ==
    \E r \in Reqs :
        /\ PublishFailed(r) /\ pc[r] = "closed"
        /\ r \notin Tentative /\ RowsFor(did[r]) = {}

\* ------------------------------------------------------------------ C12
\* C12: in every reachable state the durable ledger holds at most one row
\* per delivery id, and no step deletes or changes a committed row: every
\* row of the ledger is still in it, unchanged, after the step.
C12_OneDurableRowForever ==
    /\ [](\A d \in DeliveryIds : Cardinality(RowsFor(d)) <= 1)
    /\ [][ledger \subseteq ledger']_vars

C12_Witness ==
    \E q, r \in Reqs :
        /\ q # r /\ pc[q] = "closed" /\ pc[r] = "closed"
        /\ did[q] = did[r]
        /\ result[q] = QUEUED /\ RowOf(q) \in ledger
        /\ result[r] = DUPLICATE
        /\ Cardinality(RowsFor(did[r])) = 1

\* ------------------------------------------------------------------ C16
\* the definitive outcomes of a handle call: a result or a propagated error
Outcomes == IngestResult \cup InfraErrors \cup {"KeyError", "AttributeError"}

\* C16: under any interleaving of concurrent requests and any failures, every
\* handle call that has begun eventually ends with QUEUED, DUPLICATE, IGNORED
\* or a propagated error, and the request is eventually over: no request
\* waits forever on another one, and none is dropped without an outcome.
C16_EveryRequestEnds ==
    \A r \in Reqs :
        /\ Started(r) ~> (Ended(r) /\ result[r] \in Outcomes)
        /\ Started(r) ~> (pc[r] = "closed")

\* a request that had to wait for the transaction of another one has ended
C16_Witness ==
    \E q, r \in Reqs :
        /\ Concurrent(q, r) /\ did[q] = did[r]
        /\ InsertedNew(q) /\ InsertedDup(r)
        /\ pc[q] = "closed" /\ pc[r] = "closed"

\* ----------------------------------------------------------- C13 .. C15
\* request r came in through the endpoint and has been received
Received(r) == http[r] # NoRequest /\ pc[r] # "idle"

\* handle was invoked for request r
Handled(r) == inp[r] # 0

\* the four reasons for the endpoint to refuse a request, as the design
\* states them; the sender's signature is valid when it is the signature
\* of the raw body under the gateway's secret
NoEventHeader(h)    == h.x_github_event \in {None, ""}
NoDeliveryHeader(h) == h.x_github_delivery \in {None, ""}
ValidSignature(h)   == h.x_hub_signature_256 = sign(h.raw_body, settings.github_webhook_secret)
MalformedJson(h)    == h.raw_body = NotJson
Refusable(h) ==
    NoEventHeader(h) \/ NoDeliveryHeader(h) \/ ~ValidSignature(h) \/ MalformedJson(h)

Answered4xx(r) == StatusCode(result[r]) \in {400, 401}

\* C13: a request answered with 400 or 401 has one of the four defects (no
\* event header, no delivery header, absent or invalid signature, malformed
\* JSON); a request with such a defect never reaches handle: it makes no
\* call on session or publisher, and the step that refuses it leaves the
\* ledger and the queue as they are.
C13_RefusedBeforeHandle ==
    /\ [](\A r \in Reqs :
            /\ (Received(r) /\ Answered4xx(r)) => Refusable(http[r])
            /\ (Received(r) /\ Refusable(http[r])) =>
                    /\ ~Handled(r)
                    /\ calls[r] = <<>>
                    /\ pc[r] \in {"rejected", "closed"}
                    /\ sess[r] \in {"open", "closed"})
    /\ [][\A r \in Reqs :
            (pc[r] = "idle" /\ Refusable(http[r]) /\ pc'[r] # "idle") =>
                (ledger' = ledger /\ queue' = queue)]_vars

C13_Witness ==
    \E r \in Reqs :
        /\ Received(r) /\ pc[r] = "closed"
        /\ StatusCode(result[r]) = 401
        /\ ~ValidSignature(http[r]) /\ ~MalformedJson(http[r])
        /\ ledger = {PriorRow}

\* C14: the endpoint checks in a fixed order and answers by the first check
\* that fails: no event header gives 400; else no delivery header gives 400;
\* else an absent or invalid signature over the raw body gives 401; else a
\* body that is no JSON gives 400. So a request with both headers and no
\* signature gets 401, and one with an invalid signature and a malformed
\* body gets 401, not 400.
C14_ChecksInOrder ==
    \A r \in Reqs :
        Received(r) =>
            LET h == http[r]
            IN  IF NoEventHeader(h)
                THEN result[r] = "400 Missing X-GitHub-Event header"
                ELSE IF NoDeliveryHeader(h)
                THEN result[r] = "400 Missing X-GitHub-Delivery header"
                ELSE IF ~ValidSignature(h)
                THEN StatusCode(result[r]) = 401
                ELSE IF MalformedJson(h)
                THEN StatusCode(result[r]) = 400
                ELSE Handled(r)

\* C15: a request that passes the header, signature and JSON checks reaches
\* handle, and when handle returns the endpoint answers 202 with the status
\* of that result: "queued" and "duplicate" with the delivery id of the
\* request, "ignored" with its event name.
C15_AnswerMatchesResult ==
    \A r \in Reqs :
        (Received(r) /\ ~Refusable(http[r])) =>
            /\ Handled(r)
            /\ did[r] = http[r].x_github_delivery
            /\ event_name(r) = http[r].x_github_event
            /\ result[r] = QUEUED =>
                  Response(r) = [status_code |-> 202,
                                 body |-> [status |-> "queued", delivery_id |-> did[r]]]
            /\ result[r] = DUPLICATE =>
                  Response(r) = [status_code |-> 202,
                                 body |-> [status |-> "duplicate", delivery_id |-> did[r]]]
            /\ result[r] = IGNORED =>
                  Response(r) = [status_code |-> 202,
                                 body |-> [status |-> "ignored", event |-> event_name(r)]]

C15_Witness ==
    \E r \in Reqs :
        /\ Received(r) /\ ~Refusable(http[r]) /\ pc[r] = "closed"
        /\ result[r] = IGNORED
        /\ Response(r).status_code = 202
        /\ Response(r).body = [status |-> "ignored", event |-> "push"]

\* ----------------------------------------------------------- C17 .. C18
\* the elements of the queue that request r has pushed
PushedBy(r) == {i \in DOMAIN queue : Member(queue[i], "received_at") = isoformat(received_at(r))}

\* request r is an in-scope first delivery: its insert found no row
FirstDelivery(r) == Handled(r) /\ IsInScope(r) /\ InsertedNew(r)

\* C17: for an in-scope first delivery the labels of the issue in the
\* published event are the name values of the payload's label objects, as
\* many and in the same order, and the list is empty when the payload's
\* issue has no labels key.
C17_LabelsAreNames ==
    \A r \in Reqs :
        FirstDelivery(r) =>
            \A i \in PushedBy(r) :
                LET labels == Member(queue[i], "issue").labels
                    issue  == payload(r).issue
                IN  IF "labels" \in DOMAIN issue
                    THEN /\ Len(labels) = Len(issue.labels)
                         /\ \A j \in DOMAIN issue.labels : labels[j] = issue.labels[j].name
                    ELSE labels = <<>>

C17_Witness ==
    \E r \in Reqs :
        /\ FirstDelivery(r) /\ result[r] = QUEUED
        /\ \E i \in PushedBy(r) : Member(queue[i], "issue").labels = <<"ui", "bug">>

\* the payload of request r has no sender: the key is absent or its value
\* is null
NoSender(p) == "sender" \notin DOMAIN p \/ p.sender = NoneObject

\* C18: an in-scope first delivery whose payload has no sender (the key is
\* absent or its value is null), and is otherwise well formed, still ends
\* with QUEUED when database and queue do not fail, and the sender_login
\* of its event is null.
C18_NoSenderStillQueued ==
    \A r \in Reqs :
        (/\ FirstDelivery(r)
         /\ HasRoutingFields(payload(r)) /\ HasEventKeys(payload(r))
         /\ NotNullOk(RowOf(r))
         /\ NoSender(payload(r))
         /\ Ended(r) /\ result[r] \notin InfraErrors) =>
            /\ result[r] = QUEUED
            /\ PushedBy(r) # {}
            /\ \A i \in PushedBy(r) : Member(queue[i], "sender_login") = None

\* ----------------------------------------------------------- C19 .. C20
\* verify_github_signature has been applied to request r: to its raw body,
\* its signature header (or "") and the gateway's secret
Verified(r) == verified[r] # "none"
signature_header(r) == OrEmpty(http[r].x_hub_signature_256)

\* C19: for every payload and secret, verify_github_signature accepts the
\* signature that sign makes of that payload with that secret, and returns
\* false for the signature made of another payload or with another secret.
C19_AcceptsExactlyOwnSignature ==
    \A r \in Reqs :
        Verified(r) =>
            \A m \in {http[r].raw_body, json_dumps(ClosedPayload), NotJson}, k \in Secrets :
                signature_header(r) = sign(m, k) =>
                    IF m = http[r].raw_body /\ k = settings.github_webhook_secret
                    THEN verified[r] = "True"
                    ELSE verified[r] = "False"

C19_Witness ==
    \E r \in Reqs :
        /\ Verified(r) /\ verified[r] = "True"
        /\ signature_header(r) = sign(http[r].raw_body, settings.github_webhook_secret)
        /\ settings.github_webhook_secret = "wrong-secret"

\* C20: verify_github_signature returns false, and raises nothing, for an
\* empty signature header, for a header that does not start with "sha256="
\* and for a header with that prefix and a wrong digest.
C20_FalseNeverRaises ==
    \A r \in Reqs :
        (/\ Verified(r)
         /\ \/ signature_header(r) = EmptyHeader
            \/ signature_header(r).prefix # "sha256="
            \/ signature_header(r).digest #
                   hexdigest(settings.github_webhook_secret, http[r].raw_body)) =>
            verified[r] = "False"

\* ------------------------------------------------------------------ C21
\* request r completes a publish call in this step
PublishCompletes(r) == calls'[r] = Append(calls[r], "publish")

Acquired(r) == sess[r] # "none" /\ client[r] # "none"

\* request r can take no further step
Final(r) ==
    /\ pc[r] # "idle"
    /\ ~ENABLED (Insert(r) \/ Publish(r) \/ Commit(r) \/ Cancel(r) \/ Close(r))

\* C22: the session and the Redis client a request has acquired are released
\* on every exit path: when the request has returned, has been refused, has
\* raised or has been cancelled and can take no further step, its session
\* and its client are closed; before that both are held.
C22_ReleasedOnEveryExit ==
    \A r \in Reqs :
        /\ pc[r] # "idle" => Acquired(r)
        /\ Final(r) => (pc[r] = "closed" /\ sess[r] = "closed" /\ client[r] = "closed")
        /\ pc[r] = "closed" => (sess[r] = "closed" /\ client[r] = "closed")

C22_Witness ==
    \E r \in Reqs :
        /\ result[r] = "CancelledError" /\ Final(r)
        /\ InsertedNew(r)
        /\ sess[r] = "closed" /\ client[r] = "closed"

\* ----------------------------------------------------------- C23 .. C24
\* the JSON text has a member the schema does not declare, at the top level
\* or inside repo or issue
Undeclared(msg) ==
    \/ \E i \in DOMAIN msg : msg[i][1] \notin DeclaredFields
    \/ \E i \in DOMAIN msg :
          \/ msg[i][1] = "repo" /\ DOMAIN msg[i][2] # RepoFields
          \/ msg[i][1] = "issue" /\ ~(DOMAIN msg[i][2] \subseteq IssueFields)

Decoded == consumer.decoded # Pending

\* C23: decoding a text that carries a field the schema does not declare,
\* at the top level or inside repo or issue, gives a validation error and no
\* event.
C23_UndeclaredFieldRejected ==
    (Decoded /\ Undeclared(consumer.json)) => consumer.decoded = ValidationError

C23_Witness ==
    /\ Decoded /\ consumer.decoded = ValidationError
    /\ \E i \in DOMAIN consumer.json :
         /\ consumer.json[i][1] = "issue"
         /\ "unexpected_field" \in DOMAIN consumer.json[i][2]

C25_RowImpliesPushedEarlier ==
    /\ [](\A x \in ledger : PushedFor(x.delivery_id) # {})
    /\ [][\A x \in ledger' \ ledger : PushedFor(x.delivery_id) # {}]_vars

\* a delivery whose first attempt failed at publish, redelivered and
\* committed
C25_Witness ==
    \E q, r \in Reqs :
        /\ pc[q] = "closed" /\ result[q] = "PublishError"
        /\ pc[r] = "closed" /\ result[r] = QUEUED /\ did[r] = did[q]
        /\ RowOf(r) \in ledger
        /\ PushedFor(did[r]) # {}

\* ------------------------------------------------------------------- C26
\* C26: whenever handle has returned DUPLICATE for a delivery id, an event
\* with that id has been pushed to the queue and a row with that id is
\* durable: no delivery is acknowledged as a duplicate while no event for it
\* was ever enqueued.
C26_DuplicateMeansEnqueued ==
    \A r \in Reqs :
        result[r] = DUPLICATE =>
            /\ PushedFor(did[r]) # {}
            /\ \E x \in ledger : x.delivery_id = did[r] /\ x.status = "RECEIVED"

\* ------------------------------------------------------------------- C27
\* handle of request q raised while constructing the NormalizedEvent, after
\* insert_if_new had returned True
BuildFailed(q) == InsertedNew(q) /\ result[q] \in {"KeyError", "AttributeError"}

\* C27: when handle raises while building the NormalizedEvent after
\* insert_if_new returned True, it has called neither publish nor commit, its
\* row is not durable and is no longer held once the request has ended, and
\* a later handle call with the same delivery id that is answered DUPLICATE
\* owes it to a committed row of another call or to its own insert (C6),
\* never to the failed attempt.
C27_FailedBuildLeavesNoTrace ==
    \A q \in Reqs :
        BuildFailed(q) =>
            /\ calls[q] = <<"add", "flush">>
            /\ RowOf(q) \notin ledger
            /\ PushedBy(q) = {}
            /\ pc[q] = "closed" => q \notin Tentative
            /\ \A r \in Reqs :
                 (Earlier(q, r) /\ did[r] = did[q] /\ result[r] = DUPLICATE) =>
                     \/ \E x \in RowsFor(did[r]) : x # RowOf(q)
                     \/ ~NotNullOk(RowOf(r))

\* a delivery whose event could not be built, redelivered with a complete
\* payload and queued
C27_Witness ==
    \E q, r \in Reqs :
        /\ BuildFailed(q) /\ pc[q] = "closed"
        /\ Earlier(q, r) /\ did[r] = did[q]
        /\ pc[r] = "closed" /\ result[r] = QUEUED
        /\ ledger = {RowOf(r)}

\* ------------------------------------------------------------------- C28
\* handle of request r got as far as its publish call
ReachedPublish(r) == PublishCalls(r) # {}

\* C28: every event in the queue has event_name "issues", action "opened",
\* the current schema version and an event_id equal to its delivery_id, and
\* its delivery_id is that of a handle call that reached the publish step.
C28_QueueHoldsOpenedIssues ==
    \A i \in DOMAIN queue :
        /\ Member(queue[i], "event_name") = "issues"
        /\ Member(queue[i], "action") = "opened"
        /\ Member(queue[i], "schema_version") = SCHEMA_VERSION
        /\ Member(queue[i], "event_id") = Member(queue[i], "delivery_id")
        /\ \E r \in Reqs :
             /\ ReachedPublish(r)
             /\ did[r] = Member(queue[i], "delivery_id")

\* two events of two deliveries in the queue, other requests having been
\* out of scope
C28_Witness ==
    /\ Len(queue) = 2
    /\ Member(queue[1], "delivery_id") # Member(queue[2], "delivery_id")
    /\ \A r \in Reqs : pc[r] = "closed"

\* ------------------------------------------------------------------- C29
\* the sender has got a 202 for an attempt, and its delivery id has a durable
\* ledger row and an event in the queue
Delivered(r) ==
    /\ pc[r] = "closed" /\ StatusCode(result[r]) = 202
    /\ RowsFor(did[r]) # {}
    /\ PushedFor(did[r]) # {}

\* the last attempt within the bound was refused: the sender is due to
\* redeliver once more
Exhausted == pc[MaxReq] = "closed" /\ StatusCode(result[MaxReq]) # 202

\* C29: when the sender redelivers an in-scope delivery with the same id
\* after every non-2xx answer and the failures of publish and commit
\* eventually stop, then eventually the sender has received a 202 and the
\* delivery has a durable ledger row and at least one event in the queue
\* (a run in which the sender is still due to redeliver after MaxReq
\* attempts is not held against the property).
C29_RedeliveryEventuallyQueues == <>((\E r \in Reqs : Delivered(r)) \/ Exhausted)

\* ------------------------------------------------------------------- C30
\* what handle returns or raises for the input of request r when it runs
\* alone on an empty ledger and neither the database nor the queue fails
AloneResult(r) ==
    IF ~IsInScope(r) THEN IGNORED
    ELSE IF ~HasRoutingFields(payload(r)) THEN "KeyError"
    ELSE IF ~NotNullOk(RowOf(r)) THEN DUPLICATE
    ELSE IF ~CanBuildEvent(payload(r)) THEN BuildError(payload(r))
    ELSE QUEUED

\* the durable rows request r has committed
RowsBy(r) == {x \in ledger : x.received_at = received_at(r)}

\* every other handle call so far is for another delivery id
OwnDeliveryId(r) == \A q \in Reqs \ {r} : Started(q) => did[q] # did[r]

\* C30: a handle call whose delivery id no other call shares, and which
\* meets no failure of the database or the queue, is never kept waiting by
\* the other calls and, however the calls interleave, ends with the result
\* it has when run alone, having committed the ledger row and pushed the
\* event it commits and pushes when run alone (one row and one event if the
\* result is QUEUED, none otherwise).
C30_DistinctIdsDoNotInterfere ==
    \A r \in Reqs :
        /\ (pc[r] = "insert" /\ OwnDeliveryId(r)) => Flush(r, RowOf(r)) # "wait"
        /\ (Ended(r) /\ OwnDeliveryId(r) /\ result[r] \notin InfraErrors) =>
              /\ result[r] = AloneResult(r)
              /\ IF result[r] = QUEUED
                 THEN /\ RowsBy(r) = {RowOf(r)}
                      /\ Cardinality(PushedBy(r)) = 1
                      /\ \A i \in PushedBy(r) : queue[i] = model_dump_json(EventOf(r))
                 ELSE RowsBy(r) = {} /\ PushedBy(r) = {}

\* two overlapping calls for two delivery ids, both QUEUED, the one that
\* began later having published first
C30_Witness ==
    /\ Concurrent(1, 2) /\ did[1] # did[2]
    /\ result[1] = QUEUED /\ result[2] = QUEUED
    /\ pc[1] = "closed" /\ pc[2] = "closed"
    /\ ConsumerOrder(queue) = <<model_dump_json(EventOf(2)), model_dump_json(EventOf(1))>>
    /\ ledger = {RowOf(1), RowOf(2)}

\* ------------------------------------------------------------------- C31
\* every other handle call so far with the delivery id of r was ignored
OthersIgnored(r) ==
    \A q \in Reqs \ {r} : (Started(q) /\ did[q] = did[r]) => result[q] = IGNORED

\* C31: a handle call answered IGNORED has made no call on the session and
\* holds or has committed no ledger row, so that a delivery id only ignored
\* calls have used has no row in the ledger; and a later in-scope call with
\* the same delivery id (its payload well formed, the database and the queue
\* not failing) is treated as new: its insert finds no row and it returns
\* QUEUED, not DUPLICATE.
C31_IgnoredLeavesNoTrace ==
    /\ \A q \in Reqs :
         result[q] = IGNORED =>
             /\ calls[q] = <<>> /\ q \notin Tentative /\ RowsBy(q) = {}
             /\ OthersIgnored(q) => RowsFor(did[q]) = {}
    /\ \A q, r \in Reqs :
         ( /\ Earlier(q, r) /\ did[r] = did[q] /\ result[q] = IGNORED
           /\ WellFormed(r) /\ OthersIgnored(r)
           /\ Ended(r) /\ result[r] \notin InfraErrors ) =>
             /\ InsertedNew(r)
             /\ result[r] = QUEUED
             /\ RowsFor(did[r]) = {RowOf(r)}

\* an ignored "issues" delivery with action closed, followed by an opened
\* one with the same delivery id, which is queued
C31_Witness ==
    \E q, r \in Reqs :
        /\ Earlier(q, r) /\ did[r] = did[q]
        /\ result[q] = IGNORED /\ event_name(q) = "issues"
        /\ pc[q] = "closed" /\ pc[r] = "closed"
        /\ WellFormed(r) /\ result[r] = QUEUED
        /\ ledger = {RowOf(r)} /\ Len(queue) = 1

====
